---- MODULE Spec2Model ----
(***************************************************************************)
(* Model of colossalai/booster/plugin/moe_hybrid_parallel_plugin.py:       *)
(*   MoeHybridParallelZeroOptimizer.__init__  (flag validation, forced     *)
(*       overlap, group -> parameter-list map, call of the base class)     *)
(*   MoeHybridParallelPlugin.__init__         (MoE process-group mesh)     *)
(*   MoeHybridParallelPlugin.configure        (wrapping and reinitialize)  *)
(* The collaborators that the file imports (ProcessGroupMesh, the gradient *)
(* scaler and the collectives of the base ZeRO optimizer) are modelled     *)
(* from their written specification.                                       *)
(***************************************************************************)
EXTENDS Integers, Sequences, FiniteSets, TLC

VARIABLES
    optArgs,      \* arguments of MoeHybridParallelZeroOptimizer.__init__
    opt,          \* progress and locals of that constructor
    world_size,   \* dist.get_world_size()
    pluginArgs,   \* arguments of MoeHybridParallelPlugin.__init__ (same on every rank)
    plugin,       \* rank -> the plugin object that rank has constructed
    cfgArgs,      \* plugin fields and arguments read by configure
    cfg,          \* progress of configure and the calls it has made
    coll,         \* member of an expert group -> state of its collective call
    collStep,     \* index of the training step the group is in
    scalerCfg,    \* loss-scale policy parameters
    scaler        \* LossScaleState

vars == <<optArgs, opt, world_size, pluginArgs, plugin, cfgArgs, cfg,
          coll, collStep, scalerCfg, scaler>>

----------------------------------------------------------------------------
(* Bounds of the model *)

MaxParams == 3

None == "None"

----------------------------------------------------------------------------
(* Python helpers *)

Range(s) == {s[i] : i \in 1..Len(s)}

\* list(filter(pred, xs)): the elements of xs satisfying pred, in the order of xs
RECURSIVE Filter(_, _)
Filter(xs, keep) ==
    IF xs = <<>> THEN <<>>
    ELSE IF Head(xs) \in keep THEN <<Head(xs)>> \o Filter(Tail(xs), keep)
         ELSE Filter(Tail(xs), keep)

\* every ordered list of distinct elements of S (model.parameters() yields each
\* parameter once)
InjSeqs(S) ==
    UNION {{s \in [1..n -> S] : \A i, j \in 1..n : i # j => s[i] # s[j]} :
           n \in 0..Cardinality(S)}

----------------------------------------------------------------------------
(* MoeHybridParallelZeroOptimizer.__init__ *)

ParamIds == 1..MaxParams
ProcessGroups == {"pg_a", "pg_b"}

WARN_STR == "every expert must be routed"

\* line 57: the condition of the raise
RejectedIgnoringPartitionGrad(force_overlap_comm, overlap_communication, partition_grad) ==
    ~force_overlap_comm /\ overlap_communication

Rejected(force_overlap_comm, overlap_communication, partition_grad) ==
    ~force_overlap_comm /\ (overlap_communication \/ partition_grad)

\* lines 63-64: the value of the local overlap_communication after the if
ForcedOverlapNotApplied(force_overlap_comm, overlap_communication) ==
    overlap_communication

ForcedOverlap(force_overlap_comm, overlap_communication) ==
    IF force_overlap_comm THEN TRUE ELSE overlap_communication

\* lines 68-69: the two filtered lists
RegularParams(parameters, moe) == Filter(parameters, Range(parameters) \ moe)
ExpertParams(parameters, moe) == Filter(parameters, moe)

\* lines 67-70: a dict display; with equal keys the later item replaces the
\* earlier one, so the dict then has the single key moe_dp_group
PgParamList(dp_process_group, moe_dp_group, parameters, moe) ==
    [g \in {dp_process_group, moe_dp_group} |->
        IF g = moe_dp_group THEN ExpertParams(parameters, moe)
        ELSE RegularParams(parameters, moe)]

OptArgsDomain ==
    [force_overlap_comm : BOOLEAN,
     overlap_communication : BOOLEAN,
     partition_grad : BOOLEAN,
     dp_process_group : ProcessGroups \cup {None},
     moe_dp_group : ProcessGroups,
     parameters : InjSeqs(ParamIds),
     moe : SUBSET ParamIds]

OptIdle ==
    [pc |-> "idle", overlap_communication |-> FALSE, warnings |-> {},
     pg_built |-> FALSE, pg_param_list |-> <<>>,
     base_called |-> FALSE, base_overlap_communication |-> FALSE,
     base_partition_grad |-> FALSE, base_pg_to_param_list |-> <<>>]

OptArgsIdle ==
    [force_overlap_comm |-> FALSE, overlap_communication |-> FALSE,
     partition_grad |-> FALSE, dp_process_group |-> None,
     moe_dp_group |-> "pg_a", parameters |-> <<>>, moe |-> {}]

\* line 55: entry of the constructor, locals bound to the arguments
OptStart(a) ==
    [OptIdle EXCEPT !.pc = "validate",
                    !.overlap_communication = a.overlap_communication]

\* lines 57-61
OptValidate ==
    /\ opt.pc = "validate"
    /\ opt' = [opt EXCEPT !.pc =
                  IF Rejected(optArgs.force_overlap_comm, opt.overlap_communication,
                              optArgs.partition_grad)
                  THEN "raised" ELSE "force"]
    /\ UNCHANGED <<optArgs, world_size, pluginArgs, plugin, cfgArgs, cfg,
                   coll, collStep, scalerCfg, scaler>>

\* lines 63-65
OptForce ==
    /\ opt.pc = "force"
    /\ opt' = [opt EXCEPT
                  !.pc = "partition",
                  !.overlap_communication =
                      ForcedOverlap(optArgs.force_overlap_comm, opt.overlap_communication),
                  !.warnings = IF optArgs.force_overlap_comm
                               THEN opt.warnings \cup {WARN_STR} ELSE opt.warnings]
    /\ UNCHANGED <<optArgs, world_size, pluginArgs, plugin, cfgArgs, cfg,
                   coll, collStep, scalerCfg, scaler>>

\* lines 67-70
OptPartition ==
    /\ opt.pc = "partition"
    /\ opt' = [opt EXCEPT
                  !.pc = "super",
                  !.pg_built = TRUE,
                  !.pg_param_list =
                      PgParamList(optArgs.dp_process_group, optArgs.moe_dp_group,
                                  optArgs.parameters, optArgs.moe)]
    /\ UNCHANGED <<optArgs, world_size, pluginArgs, plugin, cfgArgs, cfg,
                   coll, collStep, scalerCfg, scaler>>

\* lines 72-97: the keyword arguments handed to HybridParallelZeroOptimizer
OptSuper ==
    /\ opt.pc = "super"
    /\ opt' = [opt EXCEPT
                  !.pc = "done",
                  !.base_called = TRUE,
                  !.base_overlap_communication = opt.overlap_communication,
                  !.base_partition_grad = optArgs.partition_grad,
                  !.base_pg_to_param_list = opt.pg_param_list]
    /\ UNCHANGED <<optArgs, world_size, pluginArgs, plugin, cfgArgs, cfg,
                   coll, collStep, scalerCfg, scaler>>

----------------------------------------------------------------------------
(* ProcessGroupMesh (colossalai.cluster.process_group_mesh) *)

RECURSIVE Prod(_)
Prod(shape) == IF shape = <<>> THEN 1 ELSE Head(shape) * Prod(Tail(shape))

\* build(axisSizes) fails unless the product of the sizes is the world size
MeshBuildOK(shape, ws) == Prod(shape) = ws

\* product of the sizes of the axes after axis a (1-based position in shape)
Stride(shape, a) == Prod(SubSeq(shape, a + 1, Len(shape)))

\* mixed-radix decomposition of a rank over the ordered axis sizes
Unravel(rank, shape) ==
    [a \in 1..Len(shape) |-> (rank \div Stride(shape, a)) % shape[a]]

\* Mesh.groupAlongAxis(axis): the ranks sharing the caller's coordinate on every
\* axis except `axis` (axes are numbered from 0)
GroupAlongAxis(shape, ws, rank, axis) ==
    {q \in 0..(ws - 1) :
        \A a \in 1..Len(shape) :
            a # axis + 1 => Unravel(q, shape)[a] = Unravel(rank, shape)[a]}

----------------------------------------------------------------------------
(* MoeHybridParallelPlugin.__init__ *)

MaxWorld == 8
MaxEpSize == 5
MaxTpSize == 2

\* line 125
moe_dp_axis == 0
ep_axis == 1
moe_tp_axis == 2

\* line 108
UseDDP(dp_size, pp_size, zero_stage) == dp_size > 1 /\ pp_size = 1 /\ zero_stage = 0

\* line 115: the condition of raise NotImplementedError
TpUnsupportedBelowOne(moe_tp_size) == moe_tp_size < 1

TpUnsupported(moe_tp_size) == moe_tp_size # 1

\* line 120: the floor division raises ZeroDivisionError on a zero divisor
DivisionByZero(ep_size, moe_tp_size) == ep_size * moe_tp_size = 0

\* line 120
MoeDpSize(ws, ep_size, moe_tp_size) == ws \div (ep_size * moe_tp_size)

\* line 124: the sizes handed to ProcessGroupMesh, in axis order
MeshShapeEpFirst(moe_dp_size, ep_size, moe_tp_size) == <<ep_size, moe_dp_size, moe_tp_size>>

MeshShape(moe_dp_size, ep_size, moe_tp_size) == <<moe_dp_size, ep_size, moe_tp_size>>

\* line 127
MoeDpGroup(shape, ws, rank) == GroupAlongAxis(shape, ws, rank, moe_dp_axis)

\* line 128
EpGroupAlongMoeDpAxis(shape, ws, rank) == GroupAlongAxis(shape, ws, rank, moe_dp_axis)

EpGroup(shape, ws, rank) == GroupAlongAxis(shape, ws, rank, ep_axis)

\* line 129
MoeTpGroup(shape, ws, rank) == GroupAlongAxis(shape, ws, rank, moe_tp_axis)

\* HybridParallelPlugin.__init__ (line 106) leaves dp_size, pp_size and zero_stage
\* on the object; the MoE fields do not exist yet
PluginNew(a) ==
    [status |-> "new", dp_size |-> a.dp_size, pp_size |-> a.pp_size,
     zero_stage |-> a.zero_stage, use_ddp |-> FALSE,
     find_unused_parameters |-> FALSE,
     moe_dp_size |-> 0, ep_size |-> 0, moe_tp_size |-> 0,
     mesh_built |-> FALSE, mesh |-> <<>>, coord |-> <<>>,
     moe_dp_group |-> {}, ep_group |-> {}, moe_tp_group |-> {},
     shard_config_ep_group |-> {}, force_overlap_comm |-> FALSE]

\* lines 108-113
PluginAfterDDP(p) ==
    [p EXCEPT !.use_ddp = UseDDP(p.dp_size, p.pp_size, p.zero_stage),
              !.find_unused_parameters = UseDDP(p.dp_size, p.pp_size, p.zero_stage)]

\* lines 118-137 on rank r, after the moe_tp_size check has passed
PluginAfterMesh(p, a, ws, r) ==
    IF DivisionByZero(a.ep_size, a.moe_tp_size)
    THEN [p EXCEPT !.status = "ZeroDivisionError"]
    ELSE
    LET dp == MoeDpSize(ws, a.ep_size, a.moe_tp_size)
        shape == MeshShape(dp, a.ep_size, a.moe_tp_size)
        sized == [p EXCEPT !.moe_dp_size = dp, !.ep_size = a.ep_size,
                           !.moe_tp_size = a.moe_tp_size]
    IN IF ~MeshBuildOK(shape, ws)
       THEN [sized EXCEPT !.status = "ConfigurationError"]
       ELSE [sized EXCEPT
                !.status = "ready",
                !.mesh_built = TRUE,
                !.mesh = shape,
                !.coord = Unravel(r, shape),
                !.moe_dp_group = MoeDpGroup(shape, ws, r),
                !.ep_group = EpGroup(shape, ws, r),
                !.moe_tp_group = MoeTpGroup(shape, ws, r),
                !.shard_config_ep_group = EpGroup(shape, ws, r),
                !.force_overlap_comm = a.force_overlap_comm]

\* lines 105-137: rank r constructs its plugin
PluginInit(r) ==
    /\ plugin[r].status = "new"
    /\ plugin' = [plugin EXCEPT ![r] =
          IF TpUnsupported(pluginArgs.moe_tp_size)
          THEN [PluginAfterDDP(plugin[r]) EXCEPT !.status = "NotImplementedError"]
          ELSE PluginAfterMesh(PluginAfterDDP(plugin[r]), pluginArgs, world_size, r)]
    /\ UNCHANGED <<optArgs, opt, world_size, pluginArgs, cfgArgs, cfg,
                   coll, collStep, scalerCfg, scaler>>

PluginArgsDomain(ws) ==
    [ep_size : 0..MaxEpSize,
     moe_tp_size : 0..MaxTpSize,
     force_overlap_comm : BOOLEAN,
     pp_size : {k \in 1..2 : ws % k = 0},
     dp_size : {ws, ws \div 2},
     zero_stage : 0..2]

----------------------------------------------------------------------------
(* MoeHybridParallelPlugin.configure *)

MaxCfgEpSize == 3

\* line 166
NeedsReinitFromOne(ep_size) == ep_size >= 1

NeedsReinit(ep_size) == ep_size > 1

\* line 187: the condition of the "unnecessary overhead" warning
ZeroOverheadWarned(dp_size, moe_dp_size) == ~(dp_size > 1 \/ moe_dp_size > 1)

\* the calls that construct an optimizer wrapper
WrapperCalls ==
    {"HybridParallelAMPOptimizer", "HybridParallelNaiveOptimizer",
     "MoeHybridParallelZeroOptimizer"}

CfgArgsDomain ==
    [model_is_wrapper : BOOLEAN,
     optimizer : {"None", "Optimizer", "OptimizerWrapper"},
     ep_size : 1..MaxCfgEpSize,
     zero_stage : 0..2,
     precision : {"fp16", "bf16", "fp32"},
     force_overlap_comm : BOOLEAN,
     overlap_communication : BOOLEAN,
     partition_grad : BOOLEAN,
     dp_size : 1..2,
     moe_dp_size : 1..2]

\* entry of configure: nothing called yet, model and optimizer as passed in
CfgStart(a) ==
    [pc |-> "param_info", calls |-> <<>>,
     model |-> IF a.model_is_wrapper THEN "ModelWrapper" ELSE "Module",
     optimizer |-> a.optimizer, warnings |-> {}, injected |-> FALSE]

\* line 152
CfgParamInfo ==
    /\ cfg.pc = "param_info"
    /\ cfg' = [cfg EXCEPT !.pc = "wrap_model",
                          !.calls = Append(cfg.calls, "get_param_info")]
    /\ UNCHANGED <<optArgs, opt, world_size, pluginArgs, plugin, cfgArgs,
                   coll, collStep, scalerCfg, scaler>>

\* lines 153-164
CfgWrapModel ==
    /\ cfg.pc = "wrap_model"
    /\ cfg' = IF cfg.model # "ModelWrapper"
              THEN [cfg EXCEPT !.pc = "reinit",
                               !.calls = Append(cfg.calls, "HybridParallelModule"),
                               !.model = "ModelWrapper"]
              ELSE [cfg EXCEPT !.pc = "reinit"]
    /\ UNCHANGED <<optArgs, opt, world_size, pluginArgs, plugin, cfgArgs,
                   coll, collStep, scalerCfg, scaler>>

\* lines 165-169
CfgReinit ==
    /\ cfg.pc = "reinit"
    /\ cfg' = IF cfg.optimizer = "Optimizer"
              THEN [cfg EXCEPT
                       !.pc = "wrap_optimizer",
                       !.calls = IF NeedsReinit(cfgArgs.ep_size)
                                 THEN Append(cfg.calls, "reinitialize_optimizer")
                                 ELSE cfg.calls]
              ELSE [cfg EXCEPT !.pc = "return"]
    /\ UNCHANGED <<optArgs, opt, world_size, pluginArgs, plugin, cfgArgs,
                   coll, collStep, scalerCfg, scaler>>

\* lines 171-206
CfgWrapOptimizer ==
    /\ cfg.pc = "wrap_optimizer"
    /\ cfg' =
         IF cfgArgs.zero_stage = 0
         THEN IF cfgArgs.precision \in {"fp16", "bf16"}
              THEN [cfg EXCEPT !.pc = "inject",
                               !.calls = Append(cfg.calls, "HybridParallelAMPOptimizer"),
                               !.optimizer = "HybridParallelAMPOptimizer"]
              ELSE [cfg EXCEPT !.pc = "inject",
                               !.calls = Append(cfg.calls, "HybridParallelNaiveOptimizer"),
                               !.optimizer = "HybridParallelNaiveOptimizer"]
         ELSE LET warned == IF ZeroOverheadWarned(cfgArgs.dp_size, cfgArgs.moe_dp_size)
                            THEN cfg.warnings \cup {"zero overhead"} ELSE cfg.warnings
              IN IF Rejected(cfgArgs.force_overlap_comm, cfgArgs.overlap_communication,
                             cfgArgs.partition_grad)
                 THEN [cfg EXCEPT !.pc = "raised",
                                  !.warnings = warned,
                                  !.calls = Append(cfg.calls, "MoeHybridParallelZeroOptimizer")]
                 ELSE [cfg EXCEPT !.pc = "inject",
                                  !.warnings = warned,
                                  !.calls = Append(cfg.calls, "MoeHybridParallelZeroOptimizer"),
                                  !.optimizer = "MoeHybridParallelZeroOptimizer"]
    /\ UNCHANGED <<optArgs, opt, world_size, pluginArgs, plugin, cfgArgs,
                   coll, collStep, scalerCfg, scaler>>

\* line 208
CfgInject ==
    /\ cfg.pc = "inject"
    /\ cfg' = [cfg EXCEPT !.pc = "return", !.injected = TRUE]
    /\ UNCHANGED <<optArgs, opt, world_size, pluginArgs, plugin, cfgArgs,
                   coll, collStep, scalerCfg, scaler>>

\* line 210
CfgReturn ==
    /\ cfg.pc = "return"
    /\ cfg' = [cfg EXCEPT !.pc = "done"]
    /\ UNCHANGED <<optArgs, opt, world_size, pluginArgs, plugin, cfgArgs,
                   coll, collStep, scalerCfg, scaler>>

----------------------------------------------------------------------------
(* Collective reduction of one expert group (issued by the base ZeRO optimizer) *)

GroupSize == 4
MaxSteps == 2

Members == 1..GroupSize

\* a collective completes once all members of its group have issued the call
CanCompleteWithoutSkippers(c) ==
    \A m \in DOMAIN c : c[m] # "computing"

CanComplete(c) == \A m \in DOMAIN c : c[m] \in {"issued", "completed"}

\* member w routes the expert's gradient and enters the group's collective
CollIssue(w) ==
    /\ coll[w] = "computing"
    /\ coll' = [coll EXCEPT ![w] = "issued"]
    /\ UNCHANGED <<optArgs, opt, world_size, pluginArgs, plugin, cfgArgs, cfg,
                   collStep, scalerCfg, scaler>>

\* member w has no gradient for the expert in this step and never enters the
\* collective
CollSkip(w) ==
    /\ coll[w] = "computing"
    /\ coll' = [coll EXCEPT ![w] = "skipped"]
    /\ UNCHANGED <<optArgs, opt, world_size, pluginArgs, plugin, cfgArgs, cfg,
                   collStep, scalerCfg, scaler>>

\* the wait of member w returns
CollComplete(w) ==
    /\ coll[w] = "issued"
    /\ CanComplete(coll)
    /\ coll' = [coll EXCEPT ![w] = "completed"]
    /\ UNCHANGED <<optArgs, opt, world_size, pluginArgs, plugin, cfgArgs, cfg,
                   collStep, scalerCfg, scaler>>

\* every member is past the synchronization point: the next training step
CollNextStep ==
    /\ \A m \in DOMAIN coll : coll[m] = "completed"
    /\ collStep < MaxSteps
    /\ collStep' = collStep + 1
    /\ coll' = [m \in DOMAIN coll |-> "computing"]
    /\ UNCHANGED <<optArgs, opt, world_size, pluginArgs, plugin, cfgArgs, cfg,
                   scalerCfg, scaler>>

----------------------------------------------------------------------------
(* Dynamic loss scale of the base ZeRO optimizer (section 4.4, Scaling) *)

MaxScaleExp == 3
MaxGrowthInterval == 3
MaxHysteresis == 3

\* line 42 (growth_factor = 2.0) and line 43 (backoff_factor = 0.5 = 1 / 2)
growth_factor == 2
backoff_divisor == 2

Max2(a, b) == IF a >= b THEN a ELSE b
Min2(a, b) == IF a <= b THEN a ELSE b

Scales == {growth_factor ^ k : k \in 0..MaxScaleExp}

\* good steps counted after an overflow, as far as the hysteresis needs them
SinceCap == MaxHysteresis + 1

\* on overflow the scale is reduced, bounded below by min_scale
BackoffUnbounded(scale, min_scale) == scale \div backoff_divisor

Backoff(scale, min_scale) == Max2(scale \div backoff_divisor, min_scale)

\* growth multiplies the scale, bounded above by max_scale
Grow(scale, max_scale) == Min2(scale * growth_factor, max_scale)

\* growth needs hysteresis good steps after the last overflow
HysteresisPassed(goodSinceOverflow, hysteresis) == goodSinceOverflow >= hysteresis

ScalerCfgDomain ==
    [min_scale : Scales, max_scale : Scales, initial_scale : Scales,
     growth_interval : 1..MaxGrowthInterval, hysteresis : 0..MaxHysteresis]

ScalerStart(c) ==
    [scale |-> c.initial_scale, consecutiveGoodSteps |-> 0,
     goodSinceOverflow |-> SinceCap, stepSkipped |-> FALSE]

\* a step whose gradients overflowed: the update is skipped, the scale backs off
ScalerOverflowStep ==
    /\ scaler' = [scale |-> Backoff(scaler.scale, scalerCfg.min_scale),
                  consecutiveGoodSteps |-> 0,
                  goodSinceOverflow |-> 0,
                  stepSkipped |-> TRUE]
    /\ UNCHANGED <<optArgs, opt, world_size, pluginArgs, plugin, cfgArgs, cfg,
                   coll, collStep, scalerCfg>>

\* an overflow-free step
ScalerGoodStep ==
    /\ LET good == scaler.consecutiveGoodSteps + 1
           since == Min2(scaler.goodSinceOverflow + 1, SinceCap)
       IN scaler' =
            IF good = scalerCfg.growth_interval
            THEN [scale |-> IF HysteresisPassed(since, scalerCfg.hysteresis)
                            THEN Grow(scaler.scale, scalerCfg.max_scale)
                            ELSE scaler.scale,
                  consecutiveGoodSteps |-> 0,
                  goodSinceOverflow |-> since,
                  stepSkipped |-> FALSE]
            ELSE [scale |-> scaler.scale,
                  consecutiveGoodSteps |-> good,
                  goodSinceOverflow |-> since,
                  stepSkipped |-> FALSE]
    /\ UNCHANGED <<optArgs, opt, world_size, pluginArgs, plugin, cfgArgs, cfg,
                   coll, collStep, scalerCfg>>

----------------------------------------------------------------------------
(* Idle values of the parts a specification does not exercise *)

PluginIdle == [r \in {} |-> None]
PluginArgsIdle == [ep_size |-> 1, moe_tp_size |-> 1, force_overlap_comm |-> FALSE,
                   dp_size |-> 1, pp_size |-> 1, zero_stage |-> 0]
CfgArgsIdle ==
    [model_is_wrapper |-> FALSE, optimizer |-> "None", ep_size |-> 1, zero_stage |-> 0,
     precision |-> "fp32", force_overlap_comm |-> FALSE, overlap_communication |-> FALSE,
     partition_grad |-> FALSE, dp_size |-> 1, moe_dp_size |-> 1]
CfgIdle ==
    [pc |-> "idle", calls |-> <<>>, model |-> "Module", optimizer |-> "None",
     warnings |-> {}, injected |-> FALSE]
CollIdle == [w \in {} |-> None]
ScalerCfgIdle ==
    [min_scale |-> 1, max_scale |-> 1, initial_scale |-> 1, growth_interval |-> 1,
     hysteresis |-> 0]
ScalerIdle ==
    [scale |-> 1, consecutiveGoodSteps |-> 0, goodSinceOverflow |-> 0,
     stepSkipped |-> FALSE]

InitOptimizer ==
    /\ optArgs \in OptArgsDomain
    /\ optArgs.moe \subseteq Range(optArgs.parameters)
    /\ opt = OptStart(optArgs)
    /\ world_size = 1
    /\ pluginArgs = PluginArgsIdle
    /\ plugin = PluginIdle
    /\ cfgArgs = CfgArgsIdle
    /\ cfg = CfgIdle
    /\ coll = CollIdle
    /\ collStep = 0
    /\ scalerCfg = ScalerCfgIdle
    /\ scaler = ScalerIdle

NextOptimizer == OptValidate \/ OptForce \/ OptPartition \/ OptSuper

SpecOptimizer == InitOptimizer /\ [][NextOptimizer]_vars

InitPlugin ==
    /\ world_size \in 1..MaxWorld
    /\ pluginArgs \in PluginArgsDomain(world_size)
    /\ pluginArgs.dp_size * pluginArgs.pp_size = world_size
    /\ plugin = [r \in 0..(world_size - 1) |-> PluginNew(pluginArgs)]
    /\ optArgs = OptArgsIdle
    /\ opt = OptIdle
    /\ cfgArgs = CfgArgsIdle
    /\ cfg = CfgIdle
    /\ coll = CollIdle
    /\ collStep = 0
    /\ scalerCfg = ScalerCfgIdle
    /\ scaler = ScalerIdle

NextPlugin == \E r \in DOMAIN plugin : PluginInit(r)

SpecPlugin == InitPlugin /\ [][NextPlugin]_vars

----------------------------------------------------------------------------
(* Properties of MoeHybridParallelZeroOptimizer.__init__ *)

OptPastValidation == opt.pc \in {"raised", "force", "partition", "super", "done"}

\* position of parameter p in the list xs (0 when absent)
IndexOf(xs, p) == IF p \in Range(xs) THEN CHOOSE i \in 1..Len(xs) : xs[i] = p ELSE 0

\* xs holds no element twice and keeps the relative order its elements have in ys
StableSublist(xs, ys) ==
    /\ Range(xs) \subseteq Range(ys)
    /\ \A i, j \in 1..Len(xs) : i < j => IndexOf(ys, xs[i]) < IndexOf(ys, xs[j])

\* C1: the constructor raises exactly when force_overlap_comm is false and
\* overlap_communication or partition_grad is true; when it raises, neither the
\* group -> parameter map has been built nor the base constructor called.
C1_RejectedIffUnforcedOverlapOrPartition ==
    LET unsafe == /\ ~optArgs.force_overlap_comm
                  /\ (optArgs.overlap_communication \/ optArgs.partition_grad)
    IN /\ OptPastValidation => ((opt.pc = "raised") <=> unsafe)
       /\ opt.pc = "raised" => ~opt.pg_built /\ ~opt.base_called
       /\ unsafe => ~opt.pg_built /\ ~opt.base_called

\* C1 witness: rejected for partition_grad alone
C1_Witness ==
    /\ opt.pc = "raised"
    /\ optArgs.partition_grad /\ ~optArgs.overlap_communication

\* C2: with force_overlap_comm the constructor never raises, emits the warning,
\* and hands overlap_communication = True and the caller's partition_grad to the
\* base constructor whatever was requested.
C2_ForcedOverlapAlwaysEnabled ==
    optArgs.force_overlap_comm =>
        /\ opt.pc # "raised"
        /\ opt.pc \in {"partition", "super", "done"} =>
               WARN_STR \in opt.warnings /\ opt.overlap_communication
        /\ opt.base_called =>
               /\ opt.base_overlap_communication
               /\ opt.base_partition_grad = optArgs.partition_grad

\* C2 witness: forced, overlap not requested, partition_grad requested, base called
C2_Witness ==
    /\ optArgs.force_overlap_comm
    /\ ~optArgs.overlap_communication /\ optArgs.partition_grad
    /\ opt.base_called /\ opt.base_overlap_communication

\* C3: the map built by the constructor is an exhaustive, disjoint, stable
\* partition: every parameter is in exactly one group's list, experts under
\* moe_dp_group, regular parameters under dp_process_group, each list in the
\* order of model.parameters().
C3_PartitionExhaustiveDisjointStable ==
    opt.pg_built =>
        LET pl == opt.pg_param_list
        IN /\ \A p \in Range(optArgs.parameters) :
                  Cardinality({g \in DOMAIN pl : p \in Range(pl[g])}) = 1
           /\ \A p \in Range(optArgs.parameters) :
                  IF p \in optArgs.moe
                  THEN p \in Range(pl[optArgs.moe_dp_group])
                  ELSE p \in Range(pl[optArgs.dp_process_group])
           /\ \A g \in DOMAIN pl : StableSublist(pl[g], optArgs.parameters)

\* C10: the map handed to the base optimizer has two entries and its lists
\* cover every parameter of the model, also when dp_process_group and
\* moe_dp_group are the same handle.
C10_MapHasTwoEntriesCoveringAllParams ==
    opt.base_called =>
        LET pl == opt.base_pg_to_param_list
        IN /\ Cardinality(DOMAIN pl) = 2
           /\ UNION {Range(pl[g]) : g \in DOMAIN pl} = Range(optArgs.parameters)

----------------------------------------------------------------------------
(* Properties of MoeHybridParallelPlugin.__init__ *)

Ranks == DOMAIN plugin
Attempted(r) == plugin[r].status # "new"
Ready(r) == plugin[r].status = "ready"

\* C4: with moe_tp_size other than 1 every construction ends in
\* NotImplementedError, and no mesh and no MoE group exists on the object.
C4_TpSizeNotOneIsNotImplemented ==
    pluginArgs.moe_tp_size # 1 =>
        \A r \in Ranks :
            /\ Attempted(r) => plugin[r].status = "NotImplementedError"
            /\ ~plugin[r].mesh_built
            /\ plugin[r].moe_dp_group = {} /\ plugin[r].ep_group = {}
            /\ plugin[r].moe_tp_group = {}

\* C4 witness: a rank has tried to construct the plugin with moe_tp_size = 2
\* and an ep_size that divides the world size
C4_Witness ==
    /\ pluginArgs.moe_tp_size = 2
    /\ pluginArgs.ep_size > 0
    /\ world_size % (pluginArgs.ep_size * 2) = 0
    /\ \E r \in Ranks : plugin[r].status = "NotImplementedError"

\* ep_size * moe_tp_size divides the world size
SizesFitWorld ==
    /\ pluginArgs.ep_size * pluginArgs.moe_tp_size > 0
    /\ world_size % (pluginArgs.ep_size * pluginArgs.moe_tp_size) = 0

\* C5: a constructed plugin has a mesh with axis sizes (moe_dp_size, ep_size,
\* moe_tp_size) whose product is the world size; when the sizes obtained by floor
\* division do not multiply to the world size, construction fails and no mesh
\* exists.
C5_MeshProductIsWorldSizeOrFails ==
    \A r \in Ranks :
        /\ Ready(r) =>
              /\ plugin[r].mesh_built
              /\ plugin[r].mesh =
                    <<plugin[r].moe_dp_size, plugin[r].ep_size, plugin[r].moe_tp_size>>
              /\ plugin[r].ep_size = pluginArgs.ep_size
              /\ plugin[r].moe_tp_size = pluginArgs.moe_tp_size
              /\ plugin[r].moe_dp_size * plugin[r].ep_size * plugin[r].moe_tp_size
                    = world_size
        /\ (Attempted(r) /\ ~SizesFitWorld) =>
              /\ plugin[r].status \in
                     {"ConfigurationError", "NotImplementedError", "ZeroDivisionError"}
              /\ ~plugin[r].mesh_built
        /\ plugin[r].status = "ConfigurationError" =>
              /\ ~SizesFitWorld
              /\ ~plugin[r].mesh_built /\ plugin[r].ep_group = {}

\* C5 witness: ep_size does not divide the world size and construction failed on
\* the mesh
C5_Witness ==
    /\ pluginArgs.ep_size > 0
    /\ world_size % pluginArgs.ep_size # 0
    /\ pluginArgs.ep_size < world_size
    /\ \E r \in Ranks : plugin[r].status = "ConfigurationError"

\* the coordinates of the other axes agree
SameOffAxis(r, q, axis) ==
    \A a \in 1..3 : a # axis + 1 => plugin[r].coord[a] = plugin[q].coord[a]

\* C6: over the constructed plugins rank -> coordinate is one-to-one and onto the
\* coordinate space; along each axis a rank's group is exactly the ranks sharing
\* its other coordinates, every member computes the same group, and the group has
\* the axis's size (a size-1 axis gives the calling rank alone).
C6_GroupsAlongAxesAgree ==
    \A r \in Ranks : Ready(r) =>
        /\ Len(plugin[r].coord) = 3
        /\ \A a \in 1..3 : plugin[r].coord[a] \in 0..(plugin[r].mesh[a] - 1)
        /\ plugin[r].mesh[1] * plugin[r].mesh[2] * plugin[r].mesh[3]
               = Cardinality(Ranks)
        /\ Cardinality(plugin[r].moe_dp_group) = plugin[r].moe_dp_size
        /\ Cardinality(plugin[r].ep_group) = plugin[r].ep_size
        /\ Cardinality(plugin[r].moe_tp_group) = plugin[r].moe_tp_size
        /\ plugin[r].moe_tp_size = 1 => plugin[r].moe_tp_group = {r}
        /\ plugin[r].shard_config_ep_group = plugin[r].ep_group
        /\ r \in plugin[r].moe_dp_group /\ r \in plugin[r].ep_group
        /\ r \in plugin[r].moe_tp_group
        /\ plugin[r].moe_dp_group \subseteq Ranks /\ plugin[r].ep_group \subseteq Ranks
        /\ \A q \in Ranks : Ready(q) =>
              /\ (plugin[q].coord = plugin[r].coord) => q = r
              /\ (q \in plugin[r].moe_dp_group) <=> SameOffAxis(r, q, 0)
              /\ (q \in plugin[r].ep_group) <=> SameOffAxis(r, q, 1)
              /\ (q \in plugin[r].moe_tp_group) <=> SameOffAxis(r, q, 2)
              /\ q \in plugin[r].moe_dp_group =>
                     plugin[q].moe_dp_group = plugin[r].moe_dp_group
              /\ q \in plugin[r].ep_group => plugin[q].ep_group = plugin[r].ep_group
              /\ q \in plugin[r].moe_tp_group =>
                     plugin[q].moe_tp_group = plugin[r].moe_tp_group
              /\ q \notin plugin[r].moe_dp_group =>
                     plugin[q].moe_dp_group \cap plugin[r].moe_dp_group = {}
              /\ q \notin plugin[r].ep_group =>
                     plugin[q].ep_group \cap plugin[r].ep_group = {}

\* C6 witness: world size 8 with axes (2, 4, 1), every rank constructed: expert
\* groups of 4, moe-data-parallel groups of 2
C6_Witness ==
    /\ world_size = 8
    /\ \A r \in Ranks :
          /\ Ready(r)
          /\ plugin[r].mesh = <<2, 4, 1>>
          /\ Cardinality(plugin[r].ep_group) = 4
          /\ Cardinality(plugin[r].moe_dp_group) = 2
    /\ plugin[0].ep_group = {0, 1, 2, 3}
    /\ plugin[0].moe_dp_group = {0, 4}

----------------------------------------------------------------------------
(* MoeHybridParallelPlugin.configure: specification and properties *)

InitConfigure ==
    /\ cfgArgs \in CfgArgsDomain
    /\ cfg = CfgStart(cfgArgs)
    /\ optArgs = OptArgsIdle
    /\ opt = OptIdle
    /\ world_size = 1
    /\ pluginArgs = PluginArgsIdle
    /\ plugin = PluginIdle
    /\ coll = CollIdle
    /\ collStep = 0
    /\ scalerCfg = ScalerCfgIdle
    /\ scaler = ScalerIdle

NextConfigure ==
    \/ CfgParamInfo
    \/ CfgWrapModel
    \/ CfgReinit
    \/ CfgWrapOptimizer
    \/ CfgInject
    \/ CfgReturn

SpecConfigure == InitConfigure /\ [][NextConfigure]_vars

ReinitCalls == {i \in 1..Len(cfg.calls) : cfg.calls[i] = "reinitialize_optimizer"}

CfgPastReinit == cfg.pc \in {"wrap_optimizer", "inject", "return", "done", "raised"}

\* C7: configure reinitializes the optimizer exactly once when ep_size > 1 and a
\* plain optimizer is supplied, with the model already wrapped and before any
\* optimizer wrapper is constructed; otherwise it never reinitializes.
C7_ReinitOnceAfterWrapBeforeOptimizerWrapper ==
    /\ Cardinality(ReinitCalls) <= 1
    /\ CfgPastReinit =>
           Cardinality(ReinitCalls) =
               IF cfgArgs.ep_size > 1 /\ cfgArgs.optimizer = "Optimizer" THEN 1 ELSE 0
    /\ \A i \in ReinitCalls :
           /\ \/ cfgArgs.model_is_wrapper
              \/ \E j \in 1..(i - 1) : cfg.calls[j] = "HybridParallelModule"
           /\ \A j \in 1..i : cfg.calls[j] \notin WrapperCalls
    /\ (\E j \in 1..Len(cfg.calls) : cfg.calls[j] \in WrapperCalls) =>
           cfgArgs.optimizer = "Optimizer"

\* C7 witness: ep_size 2, an unwrapped model and a plain optimizer: the model is
\* wrapped, then the optimizer reinitialized, then the ZeRO wrapper constructed
C7_Witness ==
    /\ cfgArgs.ep_size = 2 /\ ~cfgArgs.model_is_wrapper
    /\ cfg.pc = "done"
    /\ cfg.calls = <<"get_param_info", "HybridParallelModule",
                     "reinitialize_optimizer", "MoeHybridParallelZeroOptimizer">>

----------------------------------------------------------------------------
(* Collective reduction: specification and properties *)

InitCollective ==
    /\ coll = [m \in Members |-> "computing"]
    /\ collStep = 0
    /\ optArgs = OptArgsIdle
    /\ opt = OptIdle
    /\ world_size = 1
    /\ pluginArgs = PluginArgsIdle
    /\ plugin = PluginIdle
    /\ cfgArgs = CfgArgsIdle
    /\ cfg = CfgIdle
    /\ scalerCfg = ScalerCfgIdle
    /\ scaler = ScalerIdle

NextCollective ==
    \/ \E w \in DOMAIN coll : CollIssue(w)
    \/ \E w \in DOMAIN coll : CollSkip(w)
    \/ \E w \in DOMAIN coll : CollComplete(w)
    \/ CollNextStep

\* a wait whose collective can complete does return
SpecCollective ==
    /\ InitCollective
    /\ [][NextCollective]_vars
    /\ \A w \in Members : WF_vars(CollComplete(w))

AllIssued == \A m \in DOMAIN coll : coll[m] \in {"issued", "completed"}
AllCompleted == \A m \in DOMAIN coll : coll[m] = "completed"
SomeSkipped == \E m \in DOMAIN coll : coll[m] = "skipped"

\* C8: a member's collective has completed only if every member issued the call;
\* once a member skips the step's call, the members that issued it stay blocked
\* for good; and when every member has issued it, it completes for all of them.
C8_CollectiveNeedsEveryMember ==
    /\ [](\A w \in DOMAIN coll : coll[w] = "completed" => AllIssued)
    /\ [][SomeSkipped =>
             \A w \in DOMAIN coll :
                 /\ coll[w] = "skipped" => coll'[w] = "skipped"
                 /\ coll[w] = "issued" => coll'[w] = "issued"]_vars
    /\ (AllIssued ~> AllCompleted)

\* C8 witness: one member skipped the call and all its peers, at least three,
\* are waiting in it
C8_Witness ==
    /\ Cardinality({m \in DOMAIN coll : coll[m] = "skipped"}) = 1
    /\ Cardinality({m \in DOMAIN coll : coll[m] = "issued"}) = Cardinality(DOMAIN coll) - 1
    /\ Cardinality(DOMAIN coll) >= 4

----------------------------------------------------------------------------
(* Loss scale: specification and properties *)

InitScaler ==
    /\ scalerCfg \in ScalerCfgDomain
    /\ scalerCfg.min_scale <= scalerCfg.initial_scale
    /\ scalerCfg.initial_scale <= scalerCfg.max_scale
    /\ scaler = ScalerStart(scalerCfg)
    /\ coll = CollIdle
    /\ collStep = 0
    /\ optArgs = OptArgsIdle
    /\ opt = OptIdle
    /\ world_size = 1
    /\ pluginArgs = PluginArgsIdle
    /\ plugin = PluginIdle
    /\ cfgArgs = CfgArgsIdle
    /\ cfg = CfgIdle

NextScaler == ScalerOverflowStep \/ ScalerGoodStep

SpecScaler == InitScaler /\ [][NextScaler]_vars

\* C9: the scale stays within [min_scale, max_scale]; it grows only on the step
\* that completes growth_interval consecutive overflow-free steps, and never
\* with fewer than hysteresis overflow-free steps since the last overflow.
C9_ScaleBoundedAndGrowthGated ==
    /\ [](scalerCfg.min_scale <= scaler.scale /\ scaler.scale <= scalerCfg.max_scale)
    /\ [][scaler'.scale > scaler.scale =>
             /\ ~scaler'.stepSkipped
             /\ scaler.consecutiveGoodSteps + 1 = scalerCfg.growth_interval
             /\ scaler.goodSinceOverflow + 1 >= scalerCfg.hysteresis]_vars
    /\ [][scaler'.stepSkipped => scaler'.scale <= scaler.scale]_vars

\* C9 witness: the scale has backed off to min_scale on an overflow and later
\* grown again
C9_Witness ==
    /\ scalerCfg.growth_interval = 2 /\ scalerCfg.hysteresis = 2
    /\ scalerCfg.min_scale = 2 /\ scalerCfg.initial_scale = 2
    /\ scaler.scale = 4
    /\ scaler.goodSinceOverflow = 2

====
